---- MODULE Spec2Model ----
(***************************************************************************)
(* Model of the job tracker's command layer (src/src/cli.py) over its      *)
(* SQLite-backed Job table (src/src/models.py).                            *)
(*                                                                         *)
(* Text is modelled by TLA+ strings; TLC evaluates Len, SubSeq and \o on   *)
(* them, so splitting, parsing, lower-casing and formatting are computed   *)
(* character by character.  A nullable column or an optional command-line  *)
(* option is a set with at most one element: {} is NULL / "not given".     *)
(***************************************************************************)
EXTENDS Integers, Sequences, FiniteSets, TLC

VARIABLES
    tableExists,  \* jobs.db holds the table "jobs" (created by init_db)
    jobs,         \* the rows of table "jobs": a set of Job records
    file,         \* the export destination: NULL or Some(its CSV rows)
    out,          \* what the last command printed and how it exited
    issued,       \* history: every id a successful add has ever printed
    given         \* history: id -> the add call that created it, kept while
                  \* no update or remove has named that id since

vars == <<tableExists, jobs, file, out, issued, given>>

(***************************************************************************)
(* Bounds                                                                  *)
(***************************************************************************)
\* add is not run once the next primary key would exceed MaxId
MaxId == 2

(***************************************************************************)
(* Optional values                                                         *)
(***************************************************************************)
NULL == {}

Some(v) == {v}

Val(o) == CHOOSE v \in o : TRUE

\* Python truthiness of an optional string: None and "" are falsy
Truthy(o) == o # NULL /\ Val(o) # ""

\* `x or None` (cli.py:36, 38)
OrNone(s) == IF s = "" THEN NULL ELSE Some(s)

\* `x or d` for a nullable string column x (cli.py:63, 107, 108, 138, 139)
OrElse(o, d) == IF Truthy(o) THEN Val(o) ELSE d

(***************************************************************************)
(* Text helpers                                                            *)
(***************************************************************************)
Char(s, i) == SubSeq(s, i, i)

DigitChars == "0123456789"

IsDigit(c) == \E i \in 1..10 : Char(DigitChars, i) = c

DigitVal(c) == (CHOOSE i \in 1..10 : Char(DigitChars, i) = c) - 1

\* int(s) for the alphabet of the modelled inputs (digits, "-", letters):
\* a non-empty run of decimal digits, anything else raises ValueError
IsInt(s) == Len(s) > 0 /\ \A i \in 1..Len(s) : IsDigit(Char(s, i))

RECURSIVE ToInt(_)
ToInt(s) ==
    IF Len(s) = 0 THEN 0
    ELSE 10 * ToInt(SubSeq(s, 1, Len(s) - 1)) + DigitVal(Char(s, Len(s)))

\* s.split(sep) for a one-character separator
RECURSIVE Split(_, _)
Split(s, sep) ==
    IF \E i \in 1..Len(s) : Char(s, i) = sep
    THEN LET k == CHOOSE i \in 1..Len(s) :
                      /\ Char(s, i) = sep
                      /\ \A j \in 1..(i - 1) : Char(s, j) # sep
         IN <<SubSeq(s, 1, k - 1)>> \o Split(SubSeq(s, k + 1, Len(s)), sep)
    ELSE <<s>>

UpperChars == "ABCDEFGHIJKLMNOPQRSTUVWXYZ"

LowerChars == "abcdefghijklmnopqrstuvwxyz"

\* the lower-case letter of each upper-case letter
LowerOf ==
    [c \in {Char(UpperChars, i) : i \in 1..26} |->
        Char(LowerChars, CHOOSE i \in 1..26 : Char(UpperChars, i) = c)]

LowerChar(c) == IF c \in DOMAIN LowerOf THEN LowerOf[c] ELSE c

\* str.lower()
RECURSIVE Lower(_)
Lower(s) ==
    IF Len(s) = 0 THEN ""
    ELSE LowerChar(Char(s, 1)) \o Lower(SubSeq(s, 2, Len(s)))

\* `kw in f` on strings
Contains(kw, f) ==
    \E i \in 1..(Len(f) + 1) :
        /\ i + Len(kw) - 1 <= Len(f)
        /\ SubSeq(f, i, i + Len(kw) - 1) = kw

\* "%0<w>d" % n
RECURSIVE ZeroPad(_, _)
ZeroPad(s, w) == IF Len(s) >= w THEN s ELSE ZeroPad("0" \o s, w)

(***************************************************************************)
(* Dates                                                                   *)
(***************************************************************************)
IsLeap(y) == (y % 4 = 0 /\ y % 100 # 0) \/ y % 400 = 0

DaysInMonth(y, m) ==
    IF m = 2 THEN (IF IsLeap(y) THEN 29 ELSE 28)
    ELSE IF m \in {4, 6, 9, 11} THEN 30 ELSE 31

\* datetime.date(y, m, d) accepts exactly these
ValidDate(y, m, d) ==
    /\ y \in 1..9999
    /\ m \in 1..12
    /\ d \in 1..DaysInMonth(y, m)

\* _parse_date raises (bad unpack, int() or date() ValueError)
ParseDateFails(s) ==
    /\ s # ""
    /\ LET p == Split(s, "-")
       IN \/ Len(p) # 3
          \/ \E i \in 1..Len(p) : ~IsInt(p[i])
          \/ ~ValidDate(ToInt(p[1]), ToInt(p[2]), ToInt(p[3]))

\* _parse_date where it returns: None or a date
ParseDate(s) ==
    IF s = "" THEN NULL
    ELSE LET p == Split(s, "-")
         IN Some([y |-> ToInt(p[1]), m |-> ToInt(p[2]), d |-> ToInt(p[3])])

\* date.isoformat()
IsoFormat(dt) ==
    ZeroPad(ToString(dt.y), 4) \o "-" \o ZeroPad(ToString(dt.m), 2)
        \o "-" \o ZeroPad(ToString(dt.d), 2)

(***************************************************************************)
(* Storage layer (models.py)                                               *)
(***************************************************************************)
\* class Job: the columns of table "jobs"
Job(id, title, company, link, status, deadline, notes) ==
    [id |-> id, title |-> title, company |-> company, link |-> link,
     status |-> status, deadline |-> deadline, notes |-> notes]

Ids(table) == {r.id : r \in table}

MaxOf(S) == CHOOSE x \in S : \A y \in S : y <= x

\* The key SQLite gives an inserted row whose INTEGER PRIMARY KEY is left
\* unset (the column is declared without AUTOINCREMENT): one more than the
\* largest key now in the table, 1 for an empty table
NextId(table) == IF table = {} THEN 1 ELSE MaxOf(Ids(table)) + 1

\* s.get(Job, id): the row with that primary key, or None
Get(table, id) == {r \in table : r.id = id}

\* s.execute(select(Job)).scalars().all(): a table scan, in key order
RECURSIVE SelectAll(_)
SelectAll(table) ==
    IF table = {} THEN <<>>
    ELSE LET last == CHOOSE r \in table : \A q \in table : q.id <= r.id
         IN Append(SelectAll(table \ {last}), last)

\* init_db(): create_all creates the table only if it is missing
init_db == tableExists' = TRUE

(***************************************************************************)
(* Command layer (cli.py): what the commands print                         *)
(***************************************************************************)
\* the placeholder printed for an absent value
EmDash == "--"

ValidStatuses == {"interested", "applied", "interview", "offer", "rejected"}

\* typer's value for an option: the one given, else the declared default
Opt(o, default) == IF o = NULL THEN default ELSE Val(o)

DeadlineText(r, absent) ==
    IF r.deadline # NULL THEN IsoFormat(Val(r.deadline)) ELSE absent

\* one row of the table printed by list and search
TableRow(r) ==
    <<ToString(r.id), r.title, r.company, r.status,
      DeadlineText(r, EmDash), OrElse(r.link, EmDash)>>

\* the rows of the table printed by detail
DetailRows(j) ==
    << <<"ID", ToString(j.id)>>,
       <<"Title", j.title>>,
       <<"Company", j.company>>,
       <<"Status", j.status>>,
       <<"Deadline", DeadlineText(j, EmDash)>>,
       <<"Link", OrElse(j.link, EmDash)>>,
       <<"Notes", OrElse(j.notes, EmDash)>> >>

CsvHeader == <<"id", "title", "company", "status", "deadline", "link", "notes">>

\* CsvRow with the columns in the order the table declares them
CsvRowSchemaOrder(r) ==
    <<ToString(r.id), r.title, r.company, OrElse(r.link, ""), r.status,
      DeadlineText(r, ""), OrElse(r.notes, "")>>

\* one data row handed to csv.writer, which writes str() of each value
CsvRow(r) ==
    <<ToString(r.id), r.title, r.company, r.status,
      DeadlineText(r, ""), OrElse(r.link, ""), OrElse(r.notes, "")>>

\* the table list and search print: one TableRow per row, in order
TableRows(rows) == [k \in 1..Len(rows) |-> TableRow(rows[k])]

\* the data rows export writes: one CsvRow per row, in order
CsvRows(rows) == [k \in 1..Len(rows) |-> CsvRow(rows[k])]

\* the outcome of a command: what it was, its argument, its exit code, the
\* kind of its report and what it printed
Outcome(cmd, arg, exit, kind, shown) ==
    [cmd |-> cmd, arg |-> arg, exit |-> exit, kind |-> kind, shown |-> shown]

(***************************************************************************)
(* Command layer (cli.py): what the commands compute                       *)
(***************************************************************************)
\* NewJob with the link passed as the notes too
NewJobNotesFromLink(table, c) ==
    Job(NextId(table), c.title, c.company,
        OrNone(Opt(c.link, "")),
        Opt(c.status, "interested"),
        ParseDate(Opt(c.deadline, "")),
        OrNone(Opt(c.link, "")))

\* add's Job(...) (cli.py:33-40) with the key the INSERT gives it: the
\* options take typer's defaults, status is stored as passed
NewJob(table, c) ==
    Job(NextId(table), c.title, c.company,
        OrNone(Opt(c.link, "")),
        Opt(c.status, "interested"),
        ParseDate(Opt(c.deadline, "")),
        OrNone(Opt(c.notes, "")))

\* Listed with a substring test in place of equality
ListedBySubstring(table, status) ==
    IF status # ""
    THEN SelectSeq(SelectAll(table),
                   LAMBDA r : Contains(Lower(status), Lower(r.status)))
    ELSE SelectAll(table)

\* list's rows (cli.py:49-51): all of them, filtered when status is truthy
Listed(table, status) ==
    IF status # ""
    THEN SelectSeq(SelectAll(table), LAMBDA r : r.status = status)
    ELSE SelectAll(table)

\* Updated without the restriction to the row with key id
UpdatedEveryRow(table, id, status) ==
    {[r EXCEPT !.status = status] : r \in table}

\* update's `j.status = status` on the row with key id (cli.py:77)
Updated(table, id, status) ==
    {IF r.id = id THEN [r EXCEPT !.status = status] ELSE r : r \in table}

\* remove's s.delete(j) (cli.py:87)
Removed(table, id) == table \ Get(table, id)

\* the rows export writes (cli.py:129-140)
Exported(table) == <<CsvHeader>> \o CsvRows(SelectAll(table))

\* search's match(r) (cli.py:151-157), kw already lower-cased
Match(r, kw) ==
    \/ Contains(kw, Lower(r.title))
    \/ Contains(kw, Lower(r.company))
    \/ Contains(kw, Lower(OrElse(r.notes, "")))

\* search's results (cli.py:147-159)
Searched(table, keyword) ==
    SelectSeq(SelectAll(table), LAMBDA r : Match(r, Lower(keyword)))

(***************************************************************************)
(* Inputs                                                                  *)
(***************************************************************************)
AddCall(title, company, link, deadline, notes, status) ==
    [title |-> title, company |-> company, link |-> link,
     deadline |-> deadline, notes |-> notes, status |-> status]

\* add calls that get past _parse_date: every option omitted; every option
\* given; empty strings throughout, with an unpadded date
GoodCalls ==
    { AddCall("Backend Engineer", "Acme", NULL, NULL, NULL, NULL),
      AddCall("Backend Engineer", "Acme", Some("https://acme.test/1"),
              Some("2024-01-05"), Some("Referral"), Some("applied")),
      AddCall("", "", Some(""), Some("24-2-9"), Some(""), Some("")) }

\* deadlines _parse_date raises on: 29 February of a common year, two
\* fields, a non-digit
BadDeadlines == {"2023-02-29", "2024-01", "20x4-01-05"}

BadCalls ==
    {AddCall("Backend Engineer", "Acme", NULL, Some(d), NULL, NULL) :
         d \in BadDeadlines}

AddCalls == GoodCalls \cup BadCalls

\* one id more than add can give, so that an absent id can always be named
IdArgs == 1..(MaxId + 1)

\* three of the five statuses, one of them given by an add call too, and
\* two texts outside the enumeration
StatusArgs == {"applied", "interview", "offer", "", "Applied"}

\* no filter, two statuses, and a prefix shared by two statuses
FilterArgs == {NULL, Some("applied"), Some("interview"), Some("inter")}

KeywordArgs == {"ACME", "frontend"}

(***************************************************************************)
(* State                                                                   *)
(***************************************************************************)
\* a file some other program left at the export destination
ForeignFile == Some(<< <<"not", "an", "export">> >>)

Init ==
    /\ tableExists = FALSE
    /\ jobs = {}
    /\ file = NULL
    /\ out = Outcome("none", <<>>, 0, "None", <<>>)
    /\ issued = {}
    /\ given = {}

InitExport ==
    /\ tableExists = FALSE
    /\ jobs = {}
    /\ file \in {NULL, ForeignFile}
    /\ out = Outcome("none", <<>>, 0, "None", <<>>)
    /\ issued = {}
    /\ given = {}

Forget(id) == {g \in given : g.id # id}

(***************************************************************************)
(* Commands.  A command's report is one of: its success report; NotFound   *)
(* or InvalidInput (typer.Exit(1)); NoJobs or NoResults (a plain return);  *)
(* ValueError (raised by _parse_date) or StorageError (sqlite's "no such   *)
(* table", raised by the session), both uncaught and ending the process    *)
(* with a traceback and exit code 1.                                       *)
(***************************************************************************)
init ==
    /\ init_db
    /\ out' = Outcome("init", <<>>, 0, "Ready", <<>>)
    /\ UNCHANGED <<jobs, file, issued, given>>

add(c) ==
    /\ NextId(jobs) <= MaxId
    /\ init_db
    /\ IF ParseDateFails(Opt(c.deadline, ""))
       THEN /\ out' = Outcome("add", c, 1, "ValueError", <<>>)
            /\ UNCHANGED <<jobs, file, issued, given>>
       ELSE LET j == NewJob(jobs, c)
            IN /\ jobs' = jobs \cup {j}
               /\ out' = Outcome("add", c, 0, "Added",
                                 <<j.title, j.company, ToString(j.id)>>)
               /\ issued' = issued \cup {j.id}
               /\ given' = Forget(j.id) \cup {[id |-> j.id, call |-> c]}
               /\ UNCHANGED file

list(o) ==
    /\ init_db
    /\ out' = Outcome("list", o, 0, "Listed",
                      TableRows(Listed(jobs, Opt(o, ""))))
    /\ UNCHANGED <<jobs, file, issued, given>>

\* UpdateReport with the lookup before the check of the status
UpdateReportLookupFirst(id, status) ==
    IF ~tableExists THEN "StorageError"
    ELSE IF Get(jobs, id) = NULL THEN "NotFound"
    ELSE IF status \notin ValidStatuses THEN "InvalidInput"
    ELSE "Updated"

\* how update ends: the status is checked before the session is opened,
\* and no init_db() precedes the session
UpdateReport(id, status) ==
    IF status \notin ValidStatuses THEN "InvalidInput"
    ELSE IF ~tableExists THEN "StorageError"
    ELSE IF Get(jobs, id) = NULL THEN "NotFound"
    ELSE "Updated"

update(id, status) ==
    /\ given' = Forget(id)
    /\ UNCHANGED <<tableExists, file, issued>>
    /\ IF UpdateReport(id, status) = "Updated"
       THEN /\ jobs' = Updated(jobs, id, status)
            /\ out' = Outcome("update", <<id, status>>, 0, "Updated",
                              <<ToString(id), status>>)
       ELSE /\ out' = Outcome("update", <<id, status>>, 1,
                              UpdateReport(id, status), <<>>)
            /\ UNCHANGED jobs

\* how remove ends: no init_db() precedes the session
RemoveReport(id) ==
    IF ~tableExists THEN "StorageError"
    ELSE IF Get(jobs, id) = NULL THEN "NotFound"
    ELSE "Removed"

remove(id) ==
    /\ given' = Forget(id)
    /\ UNCHANGED <<tableExists, file, issued>>
    /\ IF RemoveReport(id) = "Removed"
       THEN /\ jobs' = Removed(jobs, id)
            /\ out' = Outcome("remove", id, 0, "Removed", <<ToString(id)>>)
       ELSE /\ out' = Outcome("remove", id, 1, RemoveReport(id), <<>>)
            /\ UNCHANGED jobs

\* how detail ends: no init_db() precedes the session
DetailReport(id) ==
    IF ~tableExists THEN "StorageError"
    ELSE IF Get(jobs, id) = NULL THEN "NotFound"
    ELSE "Detail"

detail(id) ==
    /\ UNCHANGED <<tableExists, jobs, file, issued, given>>
    /\ IF DetailReport(id) = "Detail"
       THEN out' = Outcome("detail", id, 0, "Detail",
                           DetailRows(Val(Get(jobs, id))))
       ELSE out' = Outcome("detail", id, 1, DetailReport(id), <<>>)

export ==
    /\ init_db
    /\ UNCHANGED <<jobs, issued, given>>
    /\ IF SelectAll(jobs) = <<>>
       THEN /\ out' = Outcome("export", <<>>, 0, "NoJobs", <<>>)
            /\ UNCHANGED file
       ELSE /\ file' = Some(Exported(jobs))
            /\ out' = Outcome("export", <<>>, 0, "Exported",
                              <<ToString(Len(SelectAll(jobs)))>>)

search(keyword) ==
    /\ init_db
    /\ UNCHANGED <<jobs, file, issued, given>>
    /\ IF Searched(jobs, keyword) = <<>>
       THEN out' = Outcome("search", keyword, 0, "NoResults", <<>>)
       ELSE out' = Outcome("search", keyword, 0, "Found",
                           TableRows(Searched(jobs, keyword)))

(***************************************************************************)
(* Specifications                                                          *)
(***************************************************************************)
\* the commands that work on the database and the console only
Next ==
    \/ init
    \/ \E c \in AddCalls : add(c)
    \/ \E o \in FilterArgs : list(o)
    \/ \E id \in IdArgs, status \in StatusArgs : update(id, status)
    \/ \E id \in IdArgs : remove(id)
    \/ \E id \in IdArgs : detail(id)
    \/ \E keyword \in KeywordArgs : search(keyword)

Spec == Init /\ [][Next]_vars

\* export, which also works on the destination file, with the commands
\* that fill and empty the table
NextExport ==
    \/ \E c \in GoodCalls : add(c)
    \/ \E id \in IdArgs : remove(id)
    \/ export

SpecExport == InitExport /\ [][NextExport]_vars

(***************************************************************************)
(* Properties                                                              *)
(***************************************************************************)
\* the row of a table with a given key
Row(table, id) == CHOOSE r \in table : r.id = id

\* C1: in every reachable state every stored Job's status is one of
\* interested, applied, interview, offer, rejected
C1_StatusEnumerated == \A r \in jobs : r.status \in ValidStatuses

\* C2: the id add gives a new Job was never given to an earlier Job, removed
\* Jobs included, and no command changes the id of an existing Job (a step
\* that brings a key into the table takes none out)
C2_IdNeverReused ==
    [][/\ \A i \in Ids(jobs') \ Ids(jobs) : i \notin issued
       /\ (Ids(jobs') \ Ids(jobs) # {} => Ids(jobs) \subseteq Ids(jobs'))]_vars

\* C3: update with a status outside the enumeration leaves the whole table
\* unchanged and ends InvalidInput with exit code 1, whether or not a Job
\* with that id exists
C3_InvalidStatusRejected ==
    [][(out'.cmd = "update" /\ out'.arg[2] \notin ValidStatuses)
         => /\ jobs' = jobs
            /\ out'.kind = "InvalidInput"
            /\ out'.exit = 1]_vars

C3_Witness ==
    /\ out.cmd = "update"
    /\ out.kind = "InvalidInput"
    /\ out.arg[1] \in Ids(jobs)
    /\ Cardinality(jobs) >= 2

\* C4: update of an existing id with an enumerated status sets that Job's
\* status and leaves its other fields, every other Job and the set of
\* stored ids unchanged
C4_UpdateChangesOnlyStatus ==
    [][(/\ out'.cmd = "update"
        /\ out'.arg[2] \in ValidStatuses
        /\ out'.arg[1] \in Ids(jobs))
         => /\ Ids(jobs') = Ids(jobs)
            /\ Cardinality(jobs') = Cardinality(jobs)
            /\ \A r \in jobs :
                 LET q == Row(jobs', r.id)
                 IN /\ q.title = r.title
                    /\ q.company = r.company
                    /\ q.link = r.link
                    /\ q.deadline = r.deadline
                    /\ q.notes = r.notes
                    /\ q.status = IF r.id = out'.arg[1]
                                  THEN out'.arg[2] ELSE r.status]_vars

C4_Witness ==
    /\ out.cmd = "update"
    /\ out.kind = "Updated"
    /\ Cardinality(jobs) >= 2
    /\ \E r \in jobs : r.id # out.arg[1] /\ r.status # out.arg[2]
    /\ Row(jobs, out.arg[1]).notes # NULL

\* C5: remove of a present id deletes exactly that Job, and a detail of
\* that id issued next reports NotFound with exit code 1; remove of an id
\* that is not present reports NotFound with exit code 1 and leaves the
\* table unchanged
C5_Remove ==
    [][/\ (out'.cmd = "remove" /\ out'.arg \in Ids(jobs))
            => jobs' = {r \in jobs : r.id # out'.arg}
       /\ (out'.cmd = "remove" /\ out'.arg \notin Ids(jobs))
            => /\ jobs' = jobs
               /\ out'.kind = "NotFound"
               /\ out'.exit = 1
       /\ (/\ out.cmd = "remove"
           /\ out.kind = "Removed"
           /\ out'.cmd = "detail"
           /\ out'.arg = out.arg)
            => /\ out'.kind = "NotFound"
               /\ out'.exit = 1]_vars

\* the value printed beside a field name in detail's table
Field(rows, name) == rows[CHOOSE k \in 1..Len(rows) : rows[k][1] = name][2]

\* the year, month and day a date text denotes
DateOf(text) ==
    LET p == Split(text, "-") IN <<ToInt(p[1]), ToInt(p[2]), ToInt(p[3])>>

\* a date text written YYYY-MM-DD
IsYmd(text) ==
    LET p == Split(text, "-")
    IN Len(p) = 3 /\ Len(p[1]) = 4 /\ Len(p[2]) = 2 /\ Len(p[3]) = 2

\* an option that was omitted or given as the empty string
Blank(o) == o = NULL \/ o = Some("")

\* C6: detail of an id that add returned, with no update or remove of that
\* id since, shows the title, company, link, deadline, notes and status
\* given to add: a blank option as absent, an omitted status as interested,
\* the deadline as the same calendar date (the same text when it was given
\* as YYYY-MM-DD)
C6_DetailShowsWhatAddGot ==
    \A g \in given :
        (out.cmd = "detail" /\ out.arg = g.id)
          => /\ out.kind = "Detail"
             /\ out.exit = 0
             /\ Field(out.shown, "ID") = ToString(g.id)
             /\ Field(out.shown, "Title") = g.call.title
             /\ Field(out.shown, "Company") = g.call.company
             /\ Field(out.shown, "Status") =
                   (IF g.call.status = NULL THEN "interested"
                    ELSE Val(g.call.status))
             /\ Field(out.shown, "Link") =
                   (IF Blank(g.call.link) THEN EmDash ELSE Val(g.call.link))
             /\ Field(out.shown, "Notes") =
                   (IF Blank(g.call.notes) THEN EmDash ELSE Val(g.call.notes))
             /\ IF Blank(g.call.deadline)
                THEN Field(out.shown, "Deadline") = EmDash
                ELSE /\ Field(out.shown, "Deadline") # EmDash
                     /\ DateOf(Field(out.shown, "Deadline"))
                          = DateOf(Val(g.call.deadline))
                     /\ IsYmd(Val(g.call.deadline))
                          => Field(out.shown, "Deadline") = Val(g.call.deadline)

\* detail of a Job added with every option given, after a Job with another
\* id was added and removed in between
C6_Witness ==
    /\ out.cmd = "detail"
    /\ out.arg = 1
    /\ \E g \in given :
          /\ g.id = 1
          /\ g.call.notes = Some("Referral")
          /\ g.call.deadline = Some("2024-01-05")
    /\ 2 \in issued
    /\ 2 \notin Ids(jobs)

\* C7: in every reachable state every stored Job has a non-empty title and
\* a non-empty company
C7_TitleCompanyNonEmpty == \A r \in jobs : r.title # "" /\ r.company # ""

\* C8: every command initializes storage before it opens its session, so
\* none ends in a storage failure: run on a store whose table was never
\* created, update with an enumerated status, remove and detail report
\* NotFound with exit code 1
C8_StorageInitializedFirst ==
    /\ out.kind # "StorageError"
    /\ (out.cmd \notin {"none", "update"}) => tableExists
    /\ (out.cmd = "update" /\ out.kind # "InvalidInput") => tableExists

\* C9: list with a non-empty filter prints exactly the Jobs whose status
\* equals it, list with no filter prints every Job, each once; the table
\* is unchanged and the exit code is 0
C9_ListShowsExactlyTheMatches ==
    [][out'.cmd = "list"
         => LET want == IF out'.arg = NULL THEN jobs
                        ELSE {r \in jobs : r.status = Val(out'.arg)}
                shown == out'.shown
            IN /\ jobs' = jobs
               /\ out'.exit = 0
               /\ Len(shown) = Cardinality(want)
               /\ \A r \in want :
                     \E k \in 1..Len(shown) :
                         /\ shown[k][1] = ToString(r.id)
                         /\ shown[k][2] = r.title
                         /\ shown[k][3] = r.company
                         /\ shown[k][4] = r.status]_vars

\* a filtered list that shows one of two stored Jobs
C9_Witness ==
    /\ out.cmd = "list"
    /\ out.arg = Some("applied")
    /\ Len(out.shown) = 1
    /\ Cardinality(jobs) = 2

\* C10: export of an empty table writes no file, leaving any file at the
\* destination as it was; export of N >= 1 Jobs writes N+1 rows, the header
\* and one row per Job with id, title, company, status, deadline, link and
\* notes in that order, absent values as empty strings; the table is
\* unchanged and the exit code is 0
C10_Export ==
    [][out'.cmd = "export"
         => /\ jobs' = jobs
            /\ out'.exit = 0
            /\ IF jobs = {}
               THEN file' = file
               ELSE /\ file' # NULL
                    /\ LET rows == Val(file')
                       IN /\ Len(rows) = Cardinality(jobs) + 1
                          /\ rows[1] = <<"id", "title", "company", "status",
                                         "deadline", "link", "notes">>
                          /\ \A r \in jobs :
                               \E k \in 2..Len(rows) :
                                 rows[k] =
                                   <<ToString(r.id), r.title, r.company,
                                     r.status,
                                     IF r.deadline = NULL THEN ""
                                     ELSE IsoFormat(Val(r.deadline)),
                                     IF r.link = NULL THEN ""
                                     ELSE Val(r.link),
                                     IF r.notes = NULL THEN ""
                                     ELSE Val(r.notes)>>]_vars

\* export of an emptied table that found an earlier export of two Jobs at
\* the destination and left it there
C10_Witness ==
    /\ out.cmd = "export"
    /\ out.kind = "NoJobs"
    /\ jobs = {}
    /\ file # NULL
    /\ Len(Val(file)) = 3

====
